---- MODULE Spec2Model ----
(***************************************************************************)
(* Model of the MDSA result read-out and validation of snnalgorithms:      *)
(*   src/src/snnalgorithms/sparse/MDSA/apply_results_to_graphs.py          *)
(* Names of neurons are sequences of one-character strings, so that the    *)
(* slicing and substring tests of the code are computed, not assumed.      *)
(* A Python dict is a sequence of [key, val] records in insertion order.   *)
(* The outcome of a call is a record [kind, value, error, reads]: kind is  *)
(* "return" or "raise", reads counts the neuron values fetched from the    *)
(* simulator backend before the call ended.                                *)
(***************************************************************************)
EXTENDS Integers, Sequences, FiniteSets, TLC

VARIABLES
  scenario,               \* which entry point the run exercises
  input_graph_len,        \* len(input_graph)
  snn,                    \* the simulated network at the final timestep
  red_level,              \* run_config.adaptation["redundancy"]
  simulator,              \* run_config.simulator
  votes,                  \* find_majority: votes
  alipour_counter_marks,  \* the oracle's dict
  actual_node_names,      \* assert_valid_results: the result dict
  plot_raises,            \* whether the diagnostic plot collaborator fails
  call,                   \* the arguments of the call that was made
  ret,                    \* its outcome, or Pending
  stage_2_graphs,         \* set_mdsa_snn_results: the graphs, in dict order
  graph_index,            \* the entry the loop of set_mdsa_snn_results is at
  pc,                     \* the position in the function that runs
  input_graph,            \* create_MDSA_recurrent_synapses: the input graph's edges
  mdsa_snn,               \* the synapses of the SNN
  m_val,                  \* run_config["algorithm"]["MDSA"]["m_val"]
  recurrent_weight        \* the weight of the configured recurrent synapses

vars == <<scenario, input_graph_len, snn, red_level, simulator, votes,
          alipour_counter_marks, actual_node_names, plot_raises, call, ret,
          stage_2_graphs, graph_index, pc,
          input_graph, mdsa_snn, m_val, recurrent_weight>>

\* the arguments of create_MDSA_recurrent_synapses
SynapseInputs == <<input_graph, mdsa_snn, m_val, recurrent_weight>>

\* ---------------------------------------------------------------- bounds
MaxNodes == 2
MaxVal == 2
NegDepth == 2
MaxRed == 2
MaxVotes == 4
MaxMark == 1
MaxIndex == 11
MaxGraphNodes == 3
MaxMVal == 2

Vals == (0 - NegDepth)..MaxVal
Marks == 0..MaxMark
Simulators == {"nx", "simsnn", "lava"}

\* ---------------------------------------------------------------- errors
ErrStage == "ValueError: the stage 2 simulation is not yet completed"
ErrGraphName == "ValueError: Invalid graph name"
ErrKeys == "KeyError: node_names are not equal to the Neumann selected nodes"
ErrCounts == "ValueError: SNN count per node not equal to the Neumann node counts"
ErrPassed == "ValueError: did not detect a difference, yet results say there should be"
ErrRedLevel == "ValueError: redundancy should be 2 or larger and even"
ErrTooManyValues == "ValueError: the node count contains more than 2 different values"
ErrIndex == "IndexError: list index out of range"
ErrNotImplemented == "NotImplementedError"
ErrLookup == "KeyError: no such neuron"
ErrRadDeath == "KeyError: rad_death key not set in all nodes of graph"
ErrPlot == "error raised by the plot collaborator"

\* -------------------------------------------------------------- outcomes
Pending == [kind |-> "pending"]
NoCall == [fn |-> "none"]
Return(v, n) == [kind |-> "return", value |-> v, error |-> "none", reads |-> n]
Raise(e, n) == [kind |-> "raise", value |-> <<>>, error |-> e, reads |-> n]

\* The outcome of assert_valid_results: plotted tells whether the diagnostic
\* plot was requested, node is the key the value-mismatch error names.
Validated(k, e, node, plotted) == [kind |-> k, error |-> e, node |-> node, plotted |-> plotted]

\* --------------------------------------------------------------- strings
DigitChars == <<"0", "1", "2", "3", "4", "5", "6", "7", "8", "9">>

RECURSIVE Str(_)
Str(i) == IF i < 10 THEN <<DigitChars[i + 1]>>
          ELSE Str(i \div 10) \o <<DigitChars[(i % 10) + 1]>>

counter_prefix == <<"c", "o", "u", "n", "t", "e", "r", "_">>

\* f"counter_{node_index}"
counter_name(node_index) == counter_prefix \o Str(node_index)

\* f"r_{redundancy}_counter_{node_index}"
red_node_name(redundancy, node_index) ==
  <<"r", "_">> \o Str(redundancy) \o <<"_">> \o counter_name(node_index)

\* s[:k] for k >= 0
Prefix(s, k) == SubSeq(s, 1, IF k < Len(s) THEN k ELSE Len(s))

\* s[-k:] for k > 0
Suffix(s, k) == IF k >= Len(s) THEN s ELSE SubSeq(s, Len(s) - k + 1, Len(s))

\* sub in s
Contains(sub, s) ==
  \E i \in 0..(Len(s) - Len(sub)) : SubSeq(s, i + 1, i + Len(sub)) = sub

\* ----------------------------------------------------------------- dicts
DictKeys(d) == {d[i].key : i \in 1..Len(d)}

DictHas(d, k) == \E i \in 1..Len(d) : d[i].key = k

DictGet(d, k) == d[CHOOSE i \in 1..Len(d) : d[i].key = k].val

\* d[k] = v: an existing key keeps its place, a new key goes last
DictSet(d, k, v) ==
  IF DictHas(d, k)
  THEN [i \in 1..Len(d) |-> IF d[i].key = k THEN [key |-> k, val |-> v] ELSE d[i]]
  ELSE Append(d, [key |-> k, val |-> v])

\* d.pop(k) for a key of d
DictPop(d, k) == SelectSeq(d, LAMBDA e : e.key # k)

\* list(d.values())
DictValues(d) == [i \in 1..Len(d) |-> d[i].val]

\* d1 == d2 of two dicts: same length, every key of d1 in d2 with an equal value
DictEq(d1, d2) ==
  /\ Len(d1) = Len(d2)
  /\ \A i \in 1..Len(d1) : DictHas(d2, d1[i].key) /\ DictGet(d2, d1[i].key) = d1[i].val

\* ------------------------------------------------------- the SNN backend
\* A network is a sequence of neurons [name, I]: I is the value the backend
\* reports for the neuron at the final timestep (u of nx_lif, multimeter.I).
HasNode(net, name) == \E i \in 1..Len(net) : net[i].name = name

NodeValue(net, name) == net[CHOOSE i \in 1..Len(net) : net[i].name = name].I

\* simsnn_node.name[:8] == "counter_": the name starts with "counter_"
IsCounterNeuron(name) == Prefix(name, 8) = counter_prefix

\* ------------------------------------------------------------ read-out
\* simsnn branch of get_nx_LIF_count_without_redundancy: every neuron of the
\* network whose name starts with "counter_", in network order.
RECURSIVE simsnn_node_counts(_, _, _)
simsnn_node_counts(net, i, node_counts) ==
  IF i > Len(net) THEN node_counts
  ELSE simsnn_node_counts(net, i + 1,
         IF IsCounterNeuron(net[i].name)
         THEN DictSet(node_counts, net[i].name, net[i].I)
         ELSE node_counts)

\* nx branch: counter_0 .. counter_<len(input_graph) - 1>, looked up by name.
\* int() is applied to an integer-valued potential, which it leaves as it is.
RECURSIVE nx_node_counts(_, _, _, _)
nx_node_counts(net, graph_len, node_index, node_counts) ==
  IF node_index >= graph_len THEN Return(node_counts, Len(node_counts))
  ELSE IF ~HasNode(net, counter_name(node_index))
       THEN Raise(ErrLookup, Len(node_counts))
       ELSE nx_node_counts(net, graph_len, node_index + 1,
              DictSet(node_counts, counter_name(node_index),
                      NodeValue(net, counter_name(node_index))))

get_nx_LIF_count_without_redundancy(graph_len, net, sim) ==
  IF sim = "simsnn"
  THEN Return(simsnn_node_counts(net, 1, <<>>),
              Cardinality({i \in 1..Len(net) :
                             Prefix(net[i].name, 8) = counter_prefix}))
  ELSE IF sim = "nx" THEN nx_node_counts(net, graph_len, 0, <<>>)
  ELSE Raise(ErrNotImplemented, 0)

\* simsnn branch of add_redundant_counter_node_counts for one replica name:
\* every neuron carrying that name overwrites the entry.
RECURSIVE simsnn_red_count(_, _, _, _)
simsnn_red_count(net, i, name, marks) ==
  IF i > Len(net) THEN marks
  ELSE simsnn_red_count(net, i + 1, name,
         IF net[i].name = name THEN DictSet(marks, name, net[i].I) ELSE marks)

\* add_redundant_counter_node_counts: the replicas r_1 .. r_<red_level> of
\* one node, added to snn_counter_marks. n counts the values fetched so far.
RECURSIVE add_redundant_counter_node_counts(_, _, _, _, _, _, _)
\* one pass of its loop, for the replica called red_node_name
add_redundant_count(net, node_index, red, sim, redundancy, marks, n, name) ==
  IF sim = "nx"
  THEN IF ~HasNode(net, name) THEN Raise(ErrLookup, n)
       ELSE add_redundant_counter_node_counts(net, node_index, red, sim,
              redundancy + 1, DictSet(marks, name, NodeValue(net, name)), n + 1)
  ELSE IF sim = "simsnn"
  THEN add_redundant_counter_node_counts(net, node_index, red, sim,
         redundancy + 1, simsnn_red_count(net, 1, name, marks),
         n + Cardinality({i \in 1..Len(net) : net[i].name = name}))
  ELSE Raise(ErrNotImplemented, n)

add_redundant_counter_node_counts(net, node_index, red, sim, redundancy, marks, n) ==
  IF redundancy > red THEN Return(marks, n)
  ELSE add_redundant_count(net, node_index, red, sim, redundancy, marks, n,
                           red_node_name(redundancy, node_index))

\* ------------------------------------------------------- majority vote
\* Counter(votes): [key, val] per distinct vote, in order of first occurrence.
RECURSIVE Counter(_, _, _)
Counter(vs, i, tally) ==
  IF i > Len(vs) THEN tally
  ELSE Counter(vs, i + 1,
         DictSet(tally, vs[i], IF DictHas(tally, vs[i]) THEN DictGet(tally, vs[i]) + 1 ELSE 1))

\* max(items, key=itemgetter(1)): the first item with the largest count.
RECURSIVE FirstMax(_, _, _)
FirstMax(items, i, best) ==
  IF i > Len(items) THEN best
  ELSE FirstMax(items, i + 1, IF items[i].val > items[best].val THEN i ELSE best)

\* the mutation: the last item with the largest count wins a tie
RECURSIVE LastMax(_, _, _)
LastMax(items, i, best) ==
  IF i > Len(items) THEN best
  ELSE LastMax(items, i + 1, IF items[i].val >= items[best].val THEN i ELSE best)

\* an item of the Counter as the tuple (value, count)
item_tuple(item) == <<item.key, item.val>>

last_most_common(vote_count, position) ==
  IF position < 1 \/ Len(vote_count) = 0 THEN Raise(ErrIndex, 0)
  ELSE Return(item_tuple(vote_count[LastMax(vote_count, 1, 1)]), 0)

\* vote_count.most_common(position)[0]: most_common(n) lists the n most
\* frequent items, equal counts in order of first occurrence, and is empty
\* for n < 1 or no votes
most_common_first(vote_count, position) ==
  IF position < 1 \/ Len(vote_count) = 0 THEN Raise(ErrIndex, 0)
  ELSE Return(item_tuple(vote_count[FirstMax(vote_count, 1, 1)]), 0)

find_majority_last_wins(vs, position) == last_most_common(Counter(vs, 1, <<>>), position)

find_majority(vs, position) == most_common_first(Counter(vs, 1, <<>>), position)

\* the "Filter only counter_<node_index> neurons" loop of get_majority_node_count
\* the mutation: f"counter_{node_index}" is looked for in the whole name
keep_node_name_substring(node_name, node_index) ==
  Contains(counter_name(node_index), node_name)

\* lines 472-474: a name stays unless f"counter_{node_index}" is not in
\* node_name[-len(f"counter_{node_index}"):]
keep_node_name(node_name, node_index) ==
  Contains(counter_name(node_index),
           Suffix(node_name, Len(counter_name(node_index))))

filter_counter_marks(marks, node_index) ==
  SelectSeq(marks, LAMBDA e : keep_node_name(e.key, node_index))

\* the mutation: zero is dropped with the negative readings
drop_negatives_and_zero(marks) == SelectSeq(marks, LAMBDA e : ~(e.val <= 0))

\* the mutation: the negative readings are found but never popped
drop_negatives_not_applied(marks) == SelectSeq(marks, LAMBDA e : TRUE)

\* the remove_negatives block
drop_negatives(marks) == SelectSeq(marks, LAMBDA e : ~(e.val < 0))

\* the mutation: the error is raised from two different values on
too_many_values_from_two(values) == Cardinality({values[i] : i \in 1..Len(values)}) > 1

\* len(set(list(snn_counter_marks.values()))) > 2
too_many_values(values) == Cardinality({values[i] : i \in 1..Len(values)}) > 2

\* lines 505-507: element 0 of what find_majority returns
majority_value(major, n) ==
  IF major.kind = "raise" THEN Raise(major.error, n) ELSE Return(major.value[1], n)

\* lines 496-507
vote_on_values(values, n) ==
  IF too_many_values(values) THEN Raise(ErrTooManyValues, n)
  ELSE majority_value(find_majority(values, 1), n)

\* lines 488-507, on the marks of the primary and the replicas
vote_on_marks(added, remove_negatives) ==
  IF added.kind = "raise" THEN added
  ELSE vote_on_values(DictValues(IF remove_negatives THEN drop_negatives(added.value)
                                 ELSE added.value),
                      added.reads)

\* lines 469-486, on the marks get_nx_LIF_count_without_redundancy returned
filter_and_add_redundant(primary, net, node_index, red, sim) ==
  IF primary.kind = "raise" THEN primary
  ELSE add_redundant_counter_node_counts(net, node_index, red, sim, 1,
         filter_counter_marks(primary.value, node_index), primary.reads)

get_majority_node_count(graph_len, net, node_index, red, sim, remove_negatives) ==
  vote_on_marks(
    filter_and_add_redundant(get_nx_LIF_count_without_redundancy(graph_len, net, sim),
                             net, node_index, red, sim),
    remove_negatives)

\* the mutation: the parity test of the comment ("positive and odd")
invalid_red_level_odd_rule(red) == red < 1 \/ red % 2 = 0

\* if red_level < 1 or red_level % 2 == 1
invalid_red_level(red) == red < 1 \/ red % 2 = 1

\* the loop of get_nx_LIF_count_with_redundancy over the nodes of the input
\* graph (majority_vote is left at its default, as at its only call)
RECURSIVE majority_node_counts(_, _, _, _, _, _, _)
\* node_counts[f"counter_{node_index}"] = count, and on to the next node
set_majority_node_count(graph_len, net, red, sim, node_index, node_counts, n, count) ==
  IF count.kind = "raise" THEN Raise(count.error, n + count.reads)
  ELSE majority_node_counts(graph_len, net, red, sim, node_index + 1,
         DictSet(node_counts, counter_name(node_index), count.value),
         n + count.reads)

majority_node_counts(graph_len, net, red, sim, node_index, node_counts, n) ==
  IF node_index >= graph_len THEN Return(node_counts, n)
  ELSE set_majority_node_count(graph_len, net, red, sim, node_index, node_counts, n,
         get_majority_node_count(graph_len, net, node_index, red, sim, TRUE))

get_nx_LIF_count_with_redundancy(graph_len, net, red, sim) ==
  IF invalid_red_level(red) THEN Raise(ErrRedLevel, 0)
  ELSE majority_node_counts(graph_len, net, red, sim, 0, <<>>, 0)

passed_key == <<"p", "a", "s", "s", "e", "d">>

\* the mutation: only the node names are compared
results_passed_keys_only(alipour, marks) == DictKeys(alipour) = DictKeys(marks)

\* if alipour_counter_marks == snn_counter_marks
results_passed(alipour, marks) == DictEq(alipour, marks)

\* lines 272-277: snn_counter_marks["passed"] is set and the dict returned
with_passed(alipour, marks) ==
  IF marks.kind = "raise" THEN marks
  ELSE Return(DictSet(marks.value, passed_key, results_passed(alipour, marks.value)),
              marks.reads)

get_snn_results(alipour, graph_len, redundant, sim, net, red) ==
  IF sim \notin {"nx", "simsnn"} THEN Raise(ErrNotImplemented, 0)
  ELSE with_passed(alipour,
         IF ~redundant
         THEN get_nx_LIF_count_without_redundancy(graph_len, net, sim)
         ELSE get_nx_LIF_count_with_redundancy(graph_len, net, red, sim))


\* ------------------------------------------------------------ validator
\* the first key of expected (in its own order) whose values differ, 0 if none
RECURSIVE first_difference(_, _, _)
first_difference(expected, copy, i) ==
  IF i > Len(expected) THEN 0
  ELSE IF expected[i].val # DictGet(copy, expected[i].key) THEN i
  ELSE first_difference(expected, copy, i + 1)

\* lines 163-212, i being the index in expected of the first difference.
\* plot_fails: run_config_to_filename, create_default_output_config or
\* create_svg_plot raises; nothing catches it.
raise_on_difference(actual, expected, plot_fails, i) ==
  IF i # 0
  THEN IF plot_fails THEN Validated("raise", ErrPlot, <<>>, TRUE)
       ELSE Validated("raise", ErrCounts, expected[i].key, TRUE)
  ELSE IF ~DictGet(actual, passed_key)
       THEN Validated("raise", ErrPassed, <<>>, FALSE)
       ELSE Validated("return", "none", <<>>, FALSE)

\* lines 152-212, copy being the dict without "passed"
compare_with_expected(actual, copy, expected, plot_fails) ==
  IF DictKeys(copy) # DictKeys(expected)
  THEN Validated("raise", ErrKeys, <<>>, FALSE)
  ELSE raise_on_difference(actual, expected, plot_fails,
                           first_difference(expected, copy, 1))

assert_valid_results(actual, expected, plot_fails) ==
  compare_with_expected(actual, DictPop(actual, passed_key), expected, plot_fails)

\* -------------------------------------------------------- fault detector
\* A graph is a sequence of neurons [name, tagged, rad_death]: tagged tells
\* whether the neuron's attributes hold the key "rad_death".

\* the mutation: only the counter neurons are required to carry the key
graph_has_dead_neurons_counters_only(graph) ==
  IF \E i \in 1..Len(graph) : graph[i].tagged
  THEN IF \E i \in 1..Len(graph) : IsCounterNeuron(graph[i].name) /\ ~graph[i].tagged
       THEN Raise(ErrRadDeath, 0)
       ELSE Return(TRUE, 0)
  ELSE Return(FALSE, 0)

\* graph_has_dead_neurons
graph_has_dead_neurons(graph) ==
  IF \E i \in 1..Len(graph) : graph[i].tagged
  THEN IF \E i \in 1..Len(graph) : ~graph[i].tagged
       THEN Raise(ErrRadDeath, 0)
       ELSE Return(TRUE, 0)
  ELSE Return(FALSE, 0)

\* lines 537-539, has being what graph_has_dead_neurons returned or raised
stored_rad_death(graph, counter_neuron_name, has) ==
  IF has.kind = "raise" THEN has
  ELSE IF has.value
       THEN IF ~HasNode(graph, counter_neuron_name) THEN Raise(ErrLookup, 0)
            ELSE Return(graph[CHOOSE i \in 1..Len(graph) :
                                graph[i].name = counter_neuron_name].rad_death, 0)
       ELSE Return(FALSE, 0)

counter_neuron_died(graph, counter_neuron_name) ==
  stored_rad_death(graph, counter_neuron_name, graph_has_dead_neurons(graph))

\* ------------------------------------------------------------- networks
\* One redundancy group: the primary counter_<i> followed by r_1 .. r_k.
GroupNodes(node_index, readings) ==
  [k \in 1..Len(readings) |->
     [name |-> IF k = 1 THEN counter_name(node_index)
               ELSE red_node_name(k - 1, node_index),
      I |-> readings[k]]]

RECURSIVE GroupsFrom(_, _)
GroupsFrom(groups, i) ==
  IF i > Len(groups) THEN <<>>
  ELSE GroupNodes(i - 1, groups[i]) \o GroupsFrom(groups, i + 1)

delay_name == <<"d", "e", "l", "a", "y", "_", "1">>

\* A neuron that is no counter, then the groups of nodes 0 .. N-1.
Network(groups) == <<[name |-> delay_name, I |-> MaxVal]>> \o GroupsFrom(groups, 1)

\* a dict counter_<ix[i]> -> vs[i], in the order of ix
CounterDict(ix, vs) == [i \in 1..Len(ix) |-> [key |-> counter_name(ix[i]), val |-> vs[i]]]

\* the oracle's dict: counter_<i> -> mark for i in 0 .. size - 1
Oracle(marks) == CounterDict([i \in 1..Len(marks) |-> i - 1], marks)

SeqsUpTo(S, n) == UNION {[1..k -> S] : k \in 0..n}

\* the sequences of distinct node indices below n
IndexLists(n) == {ix \in SeqsUpTo(0..(n - 1), n) :
                    \A i, j \in 1..Len(ix) : ix[i] = ix[j] => i = j}

CounterDicts(n) == UNION {{CounterDict(ix, vs) : vs \in [1..Len(ix) -> Marks]} : ix \in IndexLists(n)}

EvenReds == {r \in 2..MaxRed : r % 2 = 0}

Replicas(red) == IF red < 0 THEN 0 ELSE red

\* the networks of a run with uniform replicas: per node a primary reading,
\* r_1 reads r and every further replica is inhibited
ReadoutNetworks(graph_len, replicas) ==
  {Network([i \in 1..graph_len |->
              [k \in 1..(1 + replicas) |->
                 IF k = 1 THEN p[i] ELSE IF k = 2 THEN r ELSE -1]]) :
     p \in [1..graph_len -> {-1} \cup Marks], r \in {-1} \cup Marks}

\* the runs that build no synapses
NoSynapseCall ==
  input_graph = {} /\ mdsa_snn = {} /\ m_val = 0 /\ recurrent_weight = 0

\* ------------------------------------------------------- entry points
InitVotes ==
  /\ scenario = "votes"
  /\ votes \in SeqsUpTo(Vals, MaxVotes)
  /\ input_graph_len = 0 /\ snn = <<>> /\ red_level = 0 /\ simulator = "nx"
  /\ alipour_counter_marks = <<>> /\ actual_node_names = <<>> /\ plot_raises = FALSE

InitGroup ==
  /\ scenario = "group"
  /\ votes = <<>>
  /\ input_graph_len \in 1..MaxNodes
  /\ red_level \in EvenReds
  /\ simulator \in Simulators
  /\ \E t \in 1..input_graph_len, g \in [1..(1 + red_level) -> Vals], o \in Vals :
       snn = Network([i \in 1..input_graph_len |->
                        IF i = t THEN g ELSE [k \in 1..(1 + red_level) |-> o]])
  /\ alipour_counter_marks = <<>> /\ actual_node_names = <<>> /\ plot_raises = FALSE

\* a network of MaxIndex + 1 nodes without replicas, so that one- and
\* two-digit node indices are read together: at most two counters read
\* differently from all the others
InitNames ==
  /\ scenario = "names"
  /\ votes = <<>>
  /\ input_graph_len = MaxIndex + 1
  /\ red_level = 0
  /\ simulator \in {"nx", "simsnn"}
  /\ \E a \in 1..input_graph_len, b \in 1..input_graph_len, v \in Marks, o \in Marks :
       snn = Network([i \in 1..input_graph_len |-> <<IF i \in {a, b} THEN v ELSE o>>])
  /\ alipour_counter_marks = <<>> /\ actual_node_names = <<>> /\ plot_raises = FALSE

InitReadout ==
  /\ scenario = "readout"
  /\ votes = <<>>
  /\ input_graph_len \in 1..MaxNodes
  /\ red_level \in -1..MaxRed
  /\ simulator \in Simulators
  /\ snn \in ReadoutNetworks(input_graph_len, Replicas(red_level))
  /\ \E size \in 1..MaxNodes :
       alipour_counter_marks \in {Oracle(m) : m \in [1..size -> Marks]}
  /\ actual_node_names = <<>> /\ plot_raises = FALSE

InitValidate ==
  /\ scenario = "validate"
  /\ votes = <<>> /\ input_graph_len = 0 /\ snn = <<>> /\ red_level = 0 /\ simulator = "nx"
  /\ alipour_counter_marks \in CounterDicts(MaxNodes)
  /\ \E d \in CounterDicts(MaxNodes), passed \in BOOLEAN :
       actual_node_names = Append(d, [key |-> passed_key, val |-> passed])
  /\ plot_raises \in BOOLEAN

\* graphs of 1 .. MaxNodes + 1 counters and one other neuron, each neuron
\* without the rad_death key, or with it set to FALSE or TRUE
InitDied ==
  /\ scenario = "died"
  /\ votes = <<>> /\ red_level = 0 /\ simulator = "nx"
  /\ input_graph_len \in 1..(MaxNodes + 1)
  /\ \E tag \in [1..(input_graph_len + 1) -> {"absent", "false", "true"}] :
       snn = [i \in 1..(input_graph_len + 1) |->
                [name |-> IF i = 1 THEN delay_name ELSE counter_name(i - 2),
                 tagged |-> tag[i] # "absent",
                 rad_death |-> tag[i] = "true"]]
  /\ alipour_counter_marks = <<>> /\ actual_node_names = <<>> /\ plot_raises = FALSE

InitCalls ==
  /\ InitVotes \/ InitGroup \/ InitNames \/ InitReadout \/ InitValidate \/ InitDied
  /\ call = NoCall /\ ret = Pending
  /\ stage_2_graphs = <<>> /\ graph_index = 0 /\ pc = "call"
  /\ NoSynapseCall

CallInputs == <<scenario, input_graph_len, snn, red_level, simulator, votes,
                alipour_counter_marks, actual_node_names, plot_raises,
                stage_2_graphs, graph_index, pc, SynapseInputs>>

FindMajority ==
  /\ scenario = "votes" /\ ret = Pending
  /\ \E position \in 0..2 :
       /\ call' = [fn |-> "find_majority", position |-> position]
       /\ ret' = find_majority(votes, position)
  /\ UNCHANGED CallInputs

GetMajorityNodeCount ==
  /\ scenario \in {"group", "names"} /\ ret = Pending
  /\ \E node_index \in 0..(input_graph_len - 1), remove_negatives \in BOOLEAN :
       /\ call' = [fn |-> "get_majority_node_count", node_index |-> node_index,
                   remove_negatives |-> remove_negatives]
       /\ ret' = get_majority_node_count(input_graph_len, snn, node_index, red_level,
                                         simulator, remove_negatives)
  /\ UNCHANGED CallInputs

GetNxLIFCountWithRedundancy ==
  /\ scenario = "readout" /\ ret = Pending
  /\ call' = [fn |-> "get_nx_LIF_count_with_redundancy"]
  /\ ret' = get_nx_LIF_count_with_redundancy(input_graph_len, snn, red_level, simulator)
  /\ UNCHANGED CallInputs

GetSnnResults ==
  /\ scenario = "readout" /\ ret = Pending
  /\ \E redundant \in BOOLEAN :
       /\ call' = [fn |-> "get_snn_results", redundant |-> redundant]
       /\ ret' = get_snn_results(alipour_counter_marks, input_graph_len, redundant,
                                 simulator, snn, red_level)
  /\ UNCHANGED CallInputs

AssertValidResults ==
  /\ scenario = "validate" /\ ret = Pending
  /\ call' = [fn |-> "assert_valid_results"]
  /\ ret' = assert_valid_results(actual_node_names, alipour_counter_marks, plot_raises)
  /\ UNCHANGED CallInputs

CounterNeuronDied ==
  /\ scenario = "died" /\ ret = Pending
  /\ \E node_index \in 0..(input_graph_len - 1) :
       /\ call' = [fn |-> "counter_neuron_died", node_index |-> node_index]
       /\ ret' = counter_neuron_died(snn, counter_name(node_index))
  /\ UNCHANGED CallInputs

NextCalls ==
  \/ FindMajority
  \/ GetMajorityNodeCount
  \/ GetNxLIFCountWithRedundancy
  \/ GetSnnResults
  \/ AssertValidResults
  \/ CounterNeuronDied

SpecCalls == InitCalls /\ [][NextCalls]_vars

\* ------------------------------------------------ set_mdsa_snn_results
\* An entry of stage_2_graphs: its name, whether 2 is in its completed_stages,
\* its "results" attribute (<<>> while unset), and how often that attribute was
\* written (sets), how many neuron values were fetched from the graph (reads)
\* and how often assert_valid_results compared its results (validated).
GraphEntry(name, completed) ==
  [name |-> name, completed |-> completed, results |-> <<>>,
   sets |-> 0, reads |-> 0, validated |-> 0]

SnnGraphNames == <<"snn_algo_graph", "adapted_snn_graph",
                   "rad_snn_algo_graph", "rad_adapted_snn_graph">>

\* the mutation: the stage check lets every graph through
stage_2_completed_unchecked(entry) == TRUE

\* 2 in graph_attributes["completed_stages"]
stage_2_completed(entry) == entry.completed

\* the graphs read with redundant=True
redundant_graph(name) == name \in {"adapted_snn_graph", "rad_adapted_snn_graph"}

\* the mutation: only the unadapted graph is handed to assert_valid_results
asserted_graph_first_only(name) == name = "snn_algo_graph"

\* the graphs whose branch calls assert_valid_results after get_snn_results
asserted_graph(name) == name \in {"snn_algo_graph", "adapted_snn_graph"}

known_graph(name) == \E i \in 1..Len(SnnGraphNames) : SnnGraphNames[i] = name

\* input_graph, then some of the four SNN graphs in their usual order, then
\* possibly a graph under another name, every SNN graph with stage 2 completed
CompletedGraphDicts ==
  {<<GraphEntry("input_graph", FALSE)>>
     \o SelectSeq([i \in 1..Len(SnnGraphNames) |-> GraphEntry(SnnGraphNames[i], TRUE)],
                  LAMBDA e : e.name \in present)
     \o extra :
   present \in SUBSET {SnnGraphNames[i] : i \in 1..Len(SnnGraphNames)},
   extra \in {<<>>, <<GraphEntry("other_graph", TRUE)>>}}

\* stage_2_graphs: as above, with at most one SNN graph that has not
\* completed stage 2
GraphDicts ==
  UNION {{[i \in 1..Len(graphs) |->
             IF i = incomplete THEN GraphEntry(graphs[i].name, FALSE) ELSE graphs[i]] :
            incomplete \in {0} \cup 2..Len(graphs)} :
         graphs \in CompletedGraphDicts}

\* the networks the backend of one graph may show: every primary counter
\* reads p, every r_1 reads r, further replicas are inhibited
GraphNetworks(graph_len, replicas) ==
  {Network([i \in 1..graph_len |->
              [k \in 1..(1 + replicas) |->
                 IF k = 1 THEN p ELSE IF k = 2 THEN r ELSE -1]]) :
     p \in {-1} \cup Marks, r \in {-1} \cup Marks}

Init ==
  /\ scenario = "set_mdsa_snn_results"
  /\ votes = <<>> /\ snn = <<>> /\ actual_node_names = <<>> /\ plot_raises = FALSE
  /\ input_graph_len \in 1..MaxNodes
  /\ red_level \in -1..MaxRed
  /\ simulator \in Simulators
  /\ stage_2_graphs \in GraphDicts
  /\ alipour_counter_marks = <<>>
  /\ call = [fn |-> "set_mdsa_snn_results"] /\ ret = Pending
  /\ graph_index = 0 /\ pc = "get_results"
  /\ NoSynapseCall

RunConfig == <<scenario, input_graph_len, red_level, simulator, votes,
               actual_node_names, call, SynapseInputs>>

CurrentGraph == stage_2_graphs[graph_index]

AtGraph == pc = "loop" /\ graph_index <= Len(stage_2_graphs)

\* lines 50-56: the oracle returns its dict counter_<i> -> mark, here with
\* the same mark for every node
GetAlipourMarks ==
  /\ pc = "get_results"
  /\ \E size \in 1..MaxNodes, mark \in Marks :
       alipour_counter_marks' = Oracle([i \in 1..size |-> mark])
  /\ graph_index' = 1 /\ pc' = "loop"
  /\ UNCHANGED <<RunConfig, snn, plot_raises, ret, stage_2_graphs>>

\* the entry input_graph: nothing is checked, read or written
SkipInputGraph ==
  /\ AtGraph /\ CurrentGraph.name = "input_graph"
  /\ graph_index' = graph_index + 1
  /\ UNCHANGED <<RunConfig, snn, plot_raises, ret, stage_2_graphs,
                 alipour_counter_marks, pc>>

\* lines 71-75
RaiseStageNotCompleted ==
  /\ AtGraph /\ CurrentGraph.name # "input_graph"
  /\ ~stage_2_completed(CurrentGraph)
  /\ ret' = Raise(ErrStage, 0) /\ pc' = "raised"
  /\ UNCHANGED <<RunConfig, snn, plot_raises, stage_2_graphs,
                 alipour_counter_marks, graph_index>>

\* lines 129-130
RaiseInvalidGraphName ==
  /\ AtGraph /\ CurrentGraph.name # "input_graph"
  /\ stage_2_completed(CurrentGraph)
  /\ ~known_graph(CurrentGraph.name)
  /\ ret' = Raise(ErrGraphName, 0) /\ pc' = "raised"
  /\ UNCHANGED <<RunConfig, snn, plot_raises, stage_2_graphs,
                 alipour_counter_marks, graph_index>>

\* graph_attributes["results"] = get_snn_results(...) of one of the four
\* branches; snn' is the network the graph's backend showed
SetResults ==
  /\ AtGraph /\ CurrentGraph.name # "input_graph"
  /\ stage_2_completed(CurrentGraph)
  /\ known_graph(CurrentGraph.name)
  /\ \E net \in GraphNetworks(input_graph_len,
                              IF redundant_graph(CurrentGraph.name)
                              THEN Replicas(red_level) ELSE 0) :
     \E results \in {get_snn_results(alipour_counter_marks, input_graph_len,
                                      redundant_graph(CurrentGraph.name),
                                      simulator, net, red_level)} :
          /\ snn' = net
          /\ IF results.kind = "raise"
             THEN /\ ret' = Raise(results.error, 0) /\ pc' = "raised"
                  /\ stage_2_graphs' = [stage_2_graphs EXCEPT
                       ![graph_index].reads = @ + results.reads]
                  /\ UNCHANGED graph_index
             ELSE /\ stage_2_graphs' = [stage_2_graphs EXCEPT
                       ![graph_index].results = results.value,
                       ![graph_index].sets = @ + 1,
                       ![graph_index].reads = @ + results.reads]
                  /\ IF asserted_graph(CurrentGraph.name)
                     THEN pc' = "assert" /\ UNCHANGED graph_index
                     ELSE pc' = "loop" /\ graph_index' = graph_index + 1
                  /\ UNCHANGED ret
  /\ UNCHANGED <<RunConfig, plot_raises, alipour_counter_marks>>

\* assert_valid_results(actual_node_names=graph_attributes["results"], ...)
AssertResults ==
  /\ pc = "assert"
  /\ \E plot_fails \in BOOLEAN :
     \E outcome \in {assert_valid_results(CurrentGraph.results,
                                           alipour_counter_marks, plot_fails)} :
          /\ plot_raises' = plot_fails
          /\ stage_2_graphs' = [stage_2_graphs EXCEPT ![graph_index].validated = @ + 1]
          /\ IF outcome.kind = "raise"
             THEN ret' = Raise(outcome.error, 0) /\ pc' = "raised" /\ UNCHANGED graph_index
             ELSE pc' = "loop" /\ graph_index' = graph_index + 1 /\ UNCHANGED ret
  /\ UNCHANGED <<RunConfig, snn, alipour_counter_marks>>

\* the loop has gone through every entry: set_mdsa_snn_results returns
ReturnNone ==
  /\ pc = "loop" /\ graph_index > Len(stage_2_graphs)
  /\ ret' = Return(<<>>, 0) /\ pc' = "done"
  /\ UNCHANGED <<RunConfig, snn, plot_raises, stage_2_graphs,
                 alipour_counter_marks, graph_index>>

Next ==
  \/ GetAlipourMarks
  \/ SkipInputGraph
  \/ RaiseStageNotCompleted
  \/ RaiseInvalidGraphName
  \/ SetResults
  \/ AssertResults
  \/ ReturnNone

Spec == Init /\ [][Next]_vars

\* ------------------------------------------------- recurrent synapses
\* create_MDSA_snn_recurrent_synapses.py. The input graph has the nodes
\* 0 .. input_graph_len - 1 and the undirected edges input_graph, each a set
\* {i, j} (a set {i} is a self-loop of the input graph). mdsa_snn is the set
\* of synapses [src, dst, weight] of the SNN, src and dst being the names of
\* neurons: node_dict maps a name to the neuron of that name, and the SNN
\* holds every neuron the loops look up.
spike_once_prefix == <<"s", "p", "i", "k", "e", "_", "o", "n", "c", "e", "_">>

degree_receiver_prefix ==
  <<"d", "e", "g", "r", "e", "e", "_", "r", "e", "c", "e", "i", "v", "e", "r", "_">>

rand_prefix == <<"r", "a", "n", "d", "_">>

next_round_prefix == <<"n", "e", "x", "t", "_", "r", "o", "u", "n", "d", "_">>

delay_prefix == <<"d", "e", "l", "a", "y", "_">>

\* f"spike_once_{node_index}"
spike_once_name(node_index) == spike_once_prefix \o Str(node_index)

\* f"degree_receiver_{node_index}_" + f"{node_neighbour}_{m_val}"
degree_receiver_name(node_index, node_neighbour, m) ==
  degree_receiver_prefix \o Str(node_index) \o <<"_">> \o Str(node_neighbour)
    \o <<"_">> \o Str(m)

\* f"rand_{node_index}_{m_val}"
rand_name(node_index, m) == rand_prefix \o Str(node_index) \o <<"_">> \o Str(m)

\* f"next_round_{m_val}"
next_round_name(m) == next_round_prefix \o Str(m)

\* f"delay_{m_val}"
delay_m_name(m) == delay_prefix \o Str(m)

\* Synapse(weight=..., delay=0, change_per_t=0)
Synapse(weight) == [weight |-> weight, delay |-> 0, change_per_t |-> 0]

next_round_weight == 0 - 5

delay_weight == 0 - 15

\* mdsa_snn.add_edges_from([(node, node)], weight=synapse): a DiGraph holds
\* one edge per (source, target), a second add replaces its attributes
add_self_loop(edges, name, synapse) ==
  {e \in edges : ~(e.src = name /\ e.dst = name)}
    \cup {[src |-> name, dst |-> name, weight |-> synapse]}

\* nx.all_neighbors(input_graph, node_index) of an undirected graph, a
\* self-loop of the input graph making the node its own neighbour
all_neighbors(graph, graph_len, node_index) ==
  SelectSeq([k \in 1..graph_len |-> k - 1], LAMBDA j : {node_index, j} \in graph)

RECURSIVE create_recurrent_spike_once_synapse(_, _, _, _)
create_recurrent_spike_once_synapse(edges, graph_len, weight, node_index) ==
  IF node_index >= graph_len THEN edges
  ELSE create_recurrent_spike_once_synapse(
         add_self_loop(edges, spike_once_name(node_index), Synapse(weight)),
         graph_len, weight, node_index + 1)

\* the mutation: the loop over m_val starts at 1, as the loops of next_round
\* and delay do
RECURSIVE degree_receiver_m_loop_from_one(_, _, _, _, _, _)
degree_receiver_m_loop_from_one(edges, node_index, node_neighbour, m_max, weight, m) ==
  IF m > m_max THEN edges
  ELSE IF m = 0
  THEN degree_receiver_m_loop_from_one(edges, node_index, node_neighbour, m_max, weight, 1)
  ELSE degree_receiver_m_loop_from_one(
         add_self_loop(edges, degree_receiver_name(node_index, node_neighbour, m),
                       Synapse(weight)),
         node_index, node_neighbour, m_max, weight, m + 1)

\* for m_val in range(0, run_config["algorithm"]["MDSA"]["m_val"] + 1)
RECURSIVE degree_receiver_m_loop(_, _, _, _, _, _)
degree_receiver_m_loop(edges, node_index, node_neighbour, m_max, weight, m) ==
  IF m > m_max THEN edges
  ELSE degree_receiver_m_loop(
         add_self_loop(edges, degree_receiver_name(node_index, node_neighbour, m),
                       Synapse(weight)),
         node_index, node_neighbour, m_max, weight, m + 1)

\* for node_neighbour in nx.all_neighbors(...): if node_index != node_neighbour
RECURSIVE degree_receiver_neighbour_loop(_, _, _, _, _, _)
degree_receiver_neighbour_loop(edges, node_index, neighbours, k, m_max, weight) ==
  IF k > Len(neighbours) THEN edges
  ELSE degree_receiver_neighbour_loop(
         IF node_index # neighbours[k]
         THEN degree_receiver_m_loop(edges, node_index, neighbours[k], m_max, weight, 0)
         ELSE edges,
         node_index, neighbours, k + 1, m_max, weight)

RECURSIVE create_recurrent_degree_receiver_synapse(_, _, _, _, _, _)
create_recurrent_degree_receiver_synapse(edges, graph, graph_len, m_max, weight, node_index) ==
  IF node_index >= graph_len THEN edges
  ELSE create_recurrent_degree_receiver_synapse(
         degree_receiver_neighbour_loop(edges, node_index,
           all_neighbors(graph, graph_len, node_index), 1, m_max, weight),
         graph, graph_len, m_max, weight, node_index + 1)

RECURSIVE rand_m_loop(_, _, _, _, _)
rand_m_loop(edges, node_index, m_max, weight, m) ==
  IF m > m_max THEN edges
  ELSE rand_m_loop(add_self_loop(edges, rand_name(node_index, m), Synapse(weight)),
                   node_index, m_max, weight, m + 1)

RECURSIVE create_recurrent_rand_synapse(_, _, _, _, _)
create_recurrent_rand_synapse(edges, graph_len, m_max, weight, node_index) ==
  IF node_index >= graph_len THEN edges
  ELSE create_recurrent_rand_synapse(rand_m_loop(edges, node_index, m_max, weight, 0),
                                     graph_len, m_max, weight, node_index + 1)

\* for m_val in range(1, m_val + 1), weight -5
RECURSIVE create_recurrent_next_round_synapse(_, _, _)
create_recurrent_next_round_synapse(edges, m_max, m) ==
  IF m > m_max THEN edges
  ELSE create_recurrent_next_round_synapse(
         add_self_loop(edges, next_round_name(m), Synapse(next_round_weight)),
         m_max, m + 1)

\* for m_val in range(1, m_val + 1), weight -15
RECURSIVE create_recurrent_delay_synapse(_, _, _)
create_recurrent_delay_synapse(edges, m_max, m) ==
  IF m > m_max THEN edges
  ELSE create_recurrent_delay_synapse(
         add_self_loop(edges, delay_m_name(m), Synapse(delay_weight)),
         m_max, m + 1)

\* the edges an undirected graph on 0 .. graph_len - 1 may have
GraphEdges(graph_len) == {{i, j} : i, j \in 0..(graph_len - 1)}

RecurrentWeights == {0 - 10, 0 - 1}

\* synapses between distinct neurons that the SNN holds before the call
ForwardSynapses(graph_len) ==
  {[src |-> spike_once_name(i), dst |-> rand_name(i, 0), weight |-> Synapse(1)] :
     i \in 0..(graph_len - 1)}

InitSynapses ==
  /\ scenario = "synapses"
  /\ input_graph_len \in 1..MaxGraphNodes
  /\ input_graph \in SUBSET GraphEdges(input_graph_len)
  /\ m_val \in 0..MaxMVal
  /\ recurrent_weight \in RecurrentWeights
  /\ mdsa_snn \in {{}, ForwardSynapses(input_graph_len)}
  /\ call = [fn |-> "create_MDSA_recurrent_synapses", mdsa_snn |-> mdsa_snn]
  /\ ret = Pending /\ pc = "spike_once"
  /\ snn = <<>> /\ red_level = 0 /\ simulator = "nx" /\ votes = <<>>
  /\ alipour_counter_marks = <<>> /\ actual_node_names = <<>> /\ plot_raises = FALSE
  /\ stage_2_graphs = <<>> /\ graph_index = 0

SynapseFrame == <<scenario, input_graph_len, snn, red_level, simulator, votes,
                  alipour_counter_marks, actual_node_names, plot_raises, call,
                  stage_2_graphs, graph_index, input_graph, m_val, recurrent_weight>>

CreateRecurrentSpikeOnceSynapse ==
  /\ scenario = "synapses" /\ pc = "spike_once"
  /\ mdsa_snn' = create_recurrent_spike_once_synapse(mdsa_snn, input_graph_len,
                                                     recurrent_weight, 0)
  /\ pc' = "degree_receiver"
  /\ UNCHANGED <<SynapseFrame, ret>>

CreateRecurrentDegreeReceiverSynapse ==
  /\ scenario = "synapses" /\ pc = "degree_receiver"
  /\ mdsa_snn' = create_recurrent_degree_receiver_synapse(mdsa_snn, input_graph,
                   input_graph_len, m_val, recurrent_weight, 0)
  /\ pc' = "rand"
  /\ UNCHANGED <<SynapseFrame, ret>>

CreateRecurrentRandSynapse ==
  /\ scenario = "synapses" /\ pc = "rand"
  /\ mdsa_snn' = create_recurrent_rand_synapse(mdsa_snn, input_graph_len, m_val,
                                               recurrent_weight, 0)
  /\ pc' = "next_round"
  /\ UNCHANGED <<SynapseFrame, ret>>

CreateRecurrentNextRoundSynapse ==
  /\ scenario = "synapses" /\ pc = "next_round"
  /\ mdsa_snn' = create_recurrent_next_round_synapse(mdsa_snn, m_val, 1)
  /\ pc' = "delay"
  /\ UNCHANGED <<SynapseFrame, ret>>

\* the last step, and return mdsa_snn
CreateRecurrentDelaySynapse ==
  /\ scenario = "synapses" /\ pc = "delay"
  /\ \E edges \in {create_recurrent_delay_synapse(mdsa_snn, m_val, 1)} :
       mdsa_snn' = edges /\ ret' = Return(edges, 0)
  /\ pc' = "done"
  /\ UNCHANGED SynapseFrame

NextSynapses ==
  \/ CreateRecurrentSpikeOnceSynapse
  \/ CreateRecurrentDegreeReceiverSynapse
  \/ CreateRecurrentRandSynapse
  \/ CreateRecurrentNextRoundSynapse
  \/ CreateRecurrentDelaySynapse

SpecSynapses == InitSynapses /\ [][NextSynapses]_vars

\* ============================================================== claims

Called(fn) == ret # Pending /\ call.fn = fn

Supported == simulator \in {"nx", "simsnn"}

\* the readings of the redundancy group of one node: its primary counter and
\* its replicas r_1 .. r_red_level
GroupReadings(node_index) ==
  {NodeValue(snn, counter_name(node_index))} \cup
  {NodeValue(snn, red_node_name(k, node_index)) : k \in 1..red_level}

NonNegative(readings) == {v \in readings : v >= 0}

\* C1: with remove_negatives on, a group in which exactly one distinct value
\* v >= 0 is read and every other reading is negative resolves to v, whichever
\* member holds v and however many members are negative.
C1_OneAliveValue ==
  (Called("get_majority_node_count") /\ Supported /\ call.remove_negatives) =>
    LET alive == NonNegative(GroupReadings(call.node_index))
    IN Cardinality(alive) = 1 => ret.kind = "return" /\ ret.value \in alive

\* C1 happens: the primary is inhibited, a replica alone holds the value 0,
\* and that value is returned.
C1_Witness ==
  /\ Called("get_majority_node_count") /\ Supported /\ call.remove_negatives
  /\ NodeValue(snn, counter_name(call.node_index)) < 0
  /\ NonNegative(GroupReadings(call.node_index)) = {0}
  /\ Cardinality({k \in 1..red_level :
                    NodeValue(snn, red_node_name(k, call.node_index)) < 0}) = red_level - 1
  /\ ret.kind = "return" /\ ret.value = 0

TooManyRaised == ret.kind = "raise" /\ ret.error = ErrTooManyValues

\* C2 as stated: more than two distinct non-negative readings raise the
\* structural-violation error, at most two never do (whatever the setting of
\* remove_negatives).
C2_AsClaimed ==
  (Called("get_majority_node_count") /\ Supported) =>
    LET alive == NonNegative(GroupReadings(call.node_index))
    IN /\ Cardinality(alive) > 2 => TooManyRaised
       /\ Cardinality(alive) <= 2 => ~TooManyRaised

\* C2 amended: more than two distinct non-negative readings always raise the
\* structural-violation error; with remove_negatives on, at most two never
\* raise it; with remove_negatives off the negative readings count too, and it
\* is raised exactly when the group holds more than two distinct readings.
C2_TooManyValues ==
  (Called("get_majority_node_count") /\ Supported) =>
    LET group == GroupReadings(call.node_index)
        alive == NonNegative(group)
    IN /\ Cardinality(alive) > 2 => TooManyRaised
       /\ (call.remove_negatives /\ Cardinality(alive) <= 2) => ~TooManyRaised
       /\ ~call.remove_negatives => (TooManyRaised <=> Cardinality(group) > 2)

\* C2 happens: three distinct non-negative readings, negatives removed, and
\* the structural-violation error is raised.
C2_Witness ==
  /\ Called("get_majority_node_count") /\ Supported /\ call.remove_negatives
  /\ Cardinality(NonNegative(GroupReadings(call.node_index))) > 2
  /\ TooManyRaised

Occurrences(v) == Cardinality({i \in 1..Len(votes) : votes[i] = v})

FirstOccurrence(v) == CHOOSE i \in 1..Len(votes) :
                        votes[i] = v /\ \A j \in 1..(i - 1) : votes[j] # v

\* C3: find_majority(votes, position=1) returns a value with the highest
\* occurrence count together with that count, and among the values sharing the
\* highest count the one that occurs first in the input.
C3_FirstMostFrequent ==
  (Called("find_majority") /\ call.position = 1 /\ votes # <<>>) =>
    /\ ret.kind = "return"
    /\ \E i \in 1..Len(votes) : votes[i] = ret.value[1]
    /\ ret.value[2] = Occurrences(ret.value[1])
    /\ \A i \in 1..Len(votes) :
         /\ Occurrences(votes[i]) <= ret.value[2]
         /\ (Occurrences(votes[i]) = ret.value[2] /\ votes[i] # ret.value[1])
              => FirstOccurrence(ret.value[1]) < FirstOccurrence(votes[i])

\* C3 happens: in [-1, 2, -1, 2] both values occur twice and the first one,
\* the numerically smaller, is returned with count 2.
C3_Witness ==
  /\ Called("find_majority") /\ call.position = 1
  /\ votes = <<-1, 2, -1, 2>>
  /\ ret.kind = "return" /\ ret.value = <<-1, 2>>

ActualCounts == DictPop(actual_node_names, passed_key)

KeysAgree == DictKeys(ActualCounts) = DictKeys(alipour_counter_marks)

ValuesAgree ==
  \A k \in DictKeys(alipour_counter_marks) :
    DictGet(ActualCounts, k) = DictGet(alipour_counter_marks, k)

\* the first key, in expected's order, whose values differ
FirstMismatch ==
  alipour_counter_marks[
    CHOOSE i \in 1..Len(alipour_counter_marks) :
      /\ alipour_counter_marks[i].val # DictGet(ActualCounts, alipour_counter_marks[i].key)
      /\ \A j \in 1..(i - 1) :
           alipour_counter_marks[j].val = DictGet(ActualCounts, alipour_counter_marks[j].key)].key

\* C4 as stated: assert_valid_results completes iff keys agree, values agree
\* and passed is true; otherwise it raises the key-mismatch error, else the
\* value-mismatch error naming the first differing node, else the
\* passed-inconsistency error.
C4_AsClaimed ==
  Called("assert_valid_results") =>
    /\ ret.kind = "return" <=>
         (KeysAgree /\ ValuesAgree /\ DictGet(actual_node_names, passed_key))
    /\ ~KeysAgree => ret.error = ErrKeys
    /\ (KeysAgree /\ ~ValuesAgree) => (ret.error = ErrCounts /\ ret.node = FirstMismatch)
    /\ (KeysAgree /\ ValuesAgree /\ ~DictGet(actual_node_names, passed_key))
         => ret.error = ErrPassed

ValidationFailure ==
  \/ ~KeysAgree
  \/ ~ValuesAgree
  \/ ~DictGet(actual_node_names, passed_key)

\* C7 as stated: whenever assert_valid_results detects a validation failure,
\* the diagnostic plot is requested before the error is raised, and whatever
\* the plot does the caller receives the validation error.
C7_AsClaimed ==
  (Called("assert_valid_results") /\ ValidationFailure) =>
    /\ ret.plotted
    /\ ret.kind = "raise" /\ ret.error \in {ErrKeys, ErrCounts, ErrPassed}

\* C8: the dict get_snn_results returns has "passed" true exactly when the
\* counter names read equal the oracle's keys and every count equals the
\* oracle's, in the plain and in the redundant read-out.
C8_PassedIffEqual ==
  (Called("get_snn_results") /\ ret.kind = "return") =>
    LET counts == DictPop(ret.value, passed_key)
    IN /\ DictHas(ret.value, passed_key)
       /\ DictGet(ret.value, passed_key) <=>
            /\ DictKeys(counts) = DictKeys(alipour_counter_marks)
            /\ \A k \in DictKeys(counts) : DictGet(counts, k) = DictGet(alipour_counter_marks, k)

\* C8 happens: a redundant read-out whose names equal the oracle's but one of
\* whose counts differs, reported with passed false.
C8_Witness ==
  /\ Called("get_snn_results") /\ call.redundant /\ ret.kind = "return"
  /\ DictKeys(DictPop(ret.value, passed_key)) = DictKeys(alipour_counter_marks)
  /\ \E k \in DictKeys(alipour_counter_marks) :
       DictGet(ret.value, k) # DictGet(alipour_counter_marks, k)
  /\ DictGet(ret.value, passed_key) = FALSE

AllTagged(names) == \A i \in 1..Len(snn) : snn[i].name \in names => snn[i].tagged

NoneTagged == \A i \in 1..Len(snn) : ~snn[i].tagged

CounterNames == {snn[i].name : i \in {j \in 1..Len(snn) : IsCounterNeuron(snn[j].name)}}

AllNames == {snn[i].name : i \in 1..Len(snn)}

StoredFlag(name) == snn[CHOOSE i \in 1..Len(snn) : snn[i].name = name].rad_death

\* C9 as stated: false when no neuron carries rad_death, the stored flag when
\* all counter neurons carry it, a consistency error when some neuron carries
\* it but not all counter neurons do.
C9_AsClaimed ==
  Called("counter_neuron_died") =>
    /\ NoneTagged => (ret.kind = "return" /\ ret.value = FALSE)
    /\ AllTagged(CounterNames) =>
         (ret.kind = "return" /\ ret.value = StoredFlag(counter_name(call.node_index)))
    /\ (~NoneTagged /\ ~AllTagged(CounterNames)) =>
         (ret.kind = "raise" /\ ret.error = ErrRadDeath)

\* C9 amended: false when no neuron carries rad_death, the stored flag when
\* every neuron of the graph (counter or not) carries it, a consistency error
\* when some neuron carries it but not every neuron of the graph does.
C9_AllNeurons ==
  Called("counter_neuron_died") =>
    /\ NoneTagged => (ret.kind = "return" /\ ret.value = FALSE)
    /\ AllTagged(AllNames) =>
         (ret.kind = "return" /\ ret.value = StoredFlag(counter_name(call.node_index)))
    /\ (~NoneTagged /\ ~AllTagged(AllNames)) =>
         (ret.kind = "raise" /\ ret.error = ErrRadDeath)

\* C9 happens: every counter neuron carries the flag, a neuron that is no
\* counter does not, and the call raises the consistency error.
C9_Witness ==
  /\ Called("counter_neuron_died")
  /\ AllTagged(CounterNames) /\ ~AllTagged(AllNames)
  /\ ret.kind = "raise" /\ ret.error = ErrRadDeath

Odd(n) == \E k \in (0 - MaxRed - 1)..(MaxRed + 1) : n = 2 * k + 1

\* C10: get_nx_LIF_count_with_redundancy rejects every red_level below 1 and
\* every odd red_level with the configuration error before any counter is
\* read, and goes on to the read-out for every even red_level >= 2.
C10_RedLevelRule ==
  Called("get_nx_LIF_count_with_redundancy") =>
    /\ (red_level < 1 \/ Odd(red_level)) =>
         (ret.kind = "raise" /\ ret.error = ErrRedLevel /\ ret.reads = 0)
    /\ (red_level >= 2 /\ ~Odd(red_level)) =>
         /\ ~(ret.kind = "raise" /\ ret.error = ErrRedLevel)
         /\ Supported => ret.reads > 0

\* C10 happens: an odd red_level >= 1 is rejected with nothing read.
C10_Witness ==
  /\ Called("get_nx_LIF_count_with_redundancy")
  /\ red_level >= 1 /\ Odd(red_level)
  /\ ret.kind = "raise" /\ ret.error = ErrRedLevel /\ ret.reads = 0

SnnGraphs == {i \in 1..Len(stage_2_graphs) : stage_2_graphs[i].name # "input_graph"}

\* C5 as stated: a successful run has produced results for every network
\* variant and has validated each of them against the oracle exactly once.
C5_AsClaimed ==
  pc = "done" =>
    \A i \in SnnGraphs :
      /\ stage_2_graphs[i].results # <<>> /\ stage_2_graphs[i].sets = 1
      /\ stage_2_graphs[i].validated = 1

\* C5 amended: a successful run has produced results for every network
\* variant exactly once, has validated snn_algo_graph and adapted_snn_graph
\* against the oracle exactly once each, and has never validated the radiation
\* variants rad_snn_algo_graph and rad_adapted_snn_graph.
C5_OnlyUnradiatedValidated ==
  pc = "done" =>
    \A i \in SnnGraphs :
      /\ stage_2_graphs[i].results # <<>> /\ stage_2_graphs[i].sets = 1
      /\ stage_2_graphs[i].validated =
           IF stage_2_graphs[i].name \in {"snn_algo_graph", "adapted_snn_graph"}
           THEN 1 ELSE 0

\* C5 happens: a run of all four variants ends successfully with the results
\* of a radiation variant stored, different from the oracle, never validated.
C5_Witness ==
  /\ pc = "done" /\ Cardinality(SnnGraphs) = 4
  /\ \E i \in SnnGraphs :
       /\ stage_2_graphs[i].name = "rad_adapted_snn_graph"
       /\ stage_2_graphs[i].sets = 1 /\ stage_2_graphs[i].validated = 0
       /\ DictGet(stage_2_graphs[i].results, passed_key) = FALSE
  /\ \E i \in SnnGraphs :
       /\ stage_2_graphs[i].name = "adapted_snn_graph"
       /\ stage_2_graphs[i].validated = 1

\* C6: for every SNN graph whose completed_stages lacks 2 the precondition
\* error is raised when the loop comes to it: none of its counters is ever
\* read, its results are never written, and the loop never goes past it.
C6_NoReadBeforeStage2 ==
  \A i \in SnnGraphs :
    ~stage_2_graphs[i].completed =>
      /\ stage_2_graphs[i].reads = 0
      /\ stage_2_graphs[i].sets = 0 /\ stage_2_graphs[i].results = <<>>
      /\ stage_2_graphs[i].validated = 0
      /\ graph_index <= i
      /\ (graph_index = i /\ pc # "loop") =>
           (pc = "raised" /\ ret.kind = "raise" /\ ret.error = ErrStage)

\* C6 happens: the loop has read and stored an earlier graph, has come to an
\* incomplete one and has raised the precondition error with nothing read.
C6_Witness ==
  /\ pc = "raised" /\ ret.error = ErrStage
  /\ graph_index \in SnnGraphs
  /\ ~stage_2_graphs[graph_index].completed /\ stage_2_graphs[graph_index].reads = 0
  /\ \E j \in SnnGraphs : j < graph_index /\ stage_2_graphs[j].reads > 0
                          /\ stage_2_graphs[j].sets = 1

\* C14: with remove_negatives on, a value get_majority_node_count returns is
\* a non-negative reading of the primary or of a replica of that node, and a
\* group whose readings are all negative yields no value but an error.
C14_ValueOfOwnGroup ==
  (Called("get_majority_node_count") /\ Supported /\ call.remove_negatives) =>
    /\ ret.kind = "return" => ret.value \in NonNegative(GroupReadings(call.node_index))
    /\ NonNegative(GroupReadings(call.node_index)) = {} => ret.kind = "raise"

\* C14 happens: every reading of the group is negative while another node
\* reads a non-negative value, and the call fails on the empty list of votes.
C14_Witness ==
  /\ Called("get_majority_node_count") /\ Supported /\ call.remove_negatives
  /\ input_graph_len > 1
  /\ NonNegative(GroupReadings(call.node_index)) = {}
  /\ \E k \in 0..(input_graph_len - 1) :
       k # call.node_index /\ NodeValue(snn, counter_name(k)) >= 0
  /\ ret.kind = "raise" /\ ret.error = ErrIndex

\* the graphs whose results the validator has been applied to
ValidatedGraphs == {i \in SnnGraphs : stage_2_graphs[i].validated > 0}

\* assert_valid_results raised on the results of graph i
RejectedAt(i) == pc = "raised" /\ graph_index = i

ResultPassed(i) == DictGet(stage_2_graphs[i].results, passed_key)

\* C13 as stated: when assert_valid_results is applied to the dict that
\* get_snn_results produced against the same oracle, the passed-inconsistency
\* error is never raised: a result with passed false is rejected by the
\* key-mismatch or the value-mismatch error, a result with passed true
\* validates without error.
C13_AsClaimed ==
  \A i \in ValidatedGraphs :
    /\ ~(RejectedAt(i) /\ ret.error = ErrPassed)
    /\ ~ResultPassed(i) => (RejectedAt(i) /\ ret.error \in {ErrKeys, ErrCounts})
    /\ ResultPassed(i) => ~RejectedAt(i)

\* what remains of C13 whatever the plot collaborator does: the
\* passed-inconsistency error is never raised, a result with passed false is
\* rejected, a result with passed true validates
C13_NeverPassedInconsistency ==
  \A i \in ValidatedGraphs :
    /\ ~(RejectedAt(i) /\ ret.error = ErrPassed)
    /\ ~ResultPassed(i) => (RejectedAt(i) /\ ret.error \in {ErrKeys, ErrCounts, ErrPlot})
    /\ ResultPassed(i) => ~RejectedAt(i)

\* C13 with a plot collaborator that does not fail
C13_PlotWorks ==
  ~plot_raises => C13_AsClaimed

\* n ends with exactly c, compared at the full length of c
EndsWith(n, c) == Len(n) >= Len(c) /\ SubSeq(n, Len(n) - Len(c) + 1, Len(n)) = c

\* C12: of the primary readings, get_majority_node_count keeps for node i
\* those and only those whose name ends with exactly "counter_<i>", so the
\* reading counter_<k> of another node k is never a vote for node i, also
\* when one index is a decimal prefix or suffix of the other: without
\* replicas the value returned for node i is the reading of counter_<i>.
C12_ExactSuffix ==
  (Called("get_majority_node_count") /\ scenario = "names") =>
    /\ \A j \in 1..Len(snn) :
         keep_node_name(snn[j].name, call.node_index)
           <=> EndsWith(snn[j].name, counter_name(call.node_index))
    /\ \A k \in 0..(input_graph_len - 1) :
         keep_node_name(counter_name(k), call.node_index) <=> k = call.node_index
    /\ ret.kind = "return"
    /\ ret.value = NodeValue(snn, counter_name(call.node_index))
    /\ ret.reads = input_graph_len

\* C12 happens: counter_10 and counter_11 read 1, counter_1 and the others
\* read 0, and the count of node 1 is 0.
C12_Witness ==
  /\ Called("get_majority_node_count") /\ scenario = "names"
  /\ call.node_index = 1
  /\ \A k \in 0..(input_graph_len - 1) :
       NodeValue(snn, counter_name(k)) = IF k \in {10, 11} THEN 1 ELSE 0
  /\ ret.kind = "return" /\ ret.value = 0

GraphNodes == 0..(input_graph_len - 1)

\* the neighbours j != i of node i in the input graph
Neighbours(i) == {j \in GraphNodes : j # i /\ {i, j} \in input_graph}

\* the degree of node i: the number of its neighbours j != i (a self-loop
\* of the input graph gives the node no degree_receiver neuron)
Degree(i) == Cardinality(Neighbours(i))

RECURSIVE DegreeSum(_)
DegreeSum(i) == IF i >= input_graph_len THEN 0 ELSE Degree(i) + DegreeSum(i + 1)

SelfLoops(edges) == {e \in edges : e.src = e.dst}

DegreeReceiverLoops(edges) ==
  {e \in SelfLoops(edges) :
     Prefix(e.src, Len(degree_receiver_prefix)) = degree_receiver_prefix}

ExpectedSelfLoops ==
  {spike_once_name(i) : i \in GraphNodes}
    \cup UNION {{degree_receiver_name(i, j, m) : j \in Neighbours(i), m \in 0..m_val} :
                  i \in GraphNodes}
    \cup {rand_name(i, m) : i \in GraphNodes, m \in 0..m_val}
    \cup {next_round_name(m) : m \in 1..m_val}
    \cup {delay_m_name(m) : m \in 1..m_val}

Triangle == input_graph_len = 3 /\ input_graph = {{0, 1}, {0, 2}, {1, 2}}

\* C11: create_MDSA_recurrent_synapses adds one self-loop on spike_once_i
\* per node i, on degree_receiver_i_j_m per node i, neighbour j != i and m in
\* 0..m_val, on rand_i_m per node i and m in 0..m_val, on next_round_m and
\* delay_m per m in 1..m_val, and no other edge: the degree_receiver
\* self-loops number (sum of the degrees) * (m_val + 1), 18 for a triangle
\* with m_val = 2, and the edges between distinct neurons are those the SNN
\* had before the call, at every step.
C11_RecurrentSynapses ==
  scenario = "synapses" =>
    /\ {e \in mdsa_snn : e.src # e.dst} = {e \in call.mdsa_snn : e.src # e.dst}
    /\ pc = "done" =>
         /\ {e.src : e \in SelfLoops(mdsa_snn)} = ExpectedSelfLoops
         /\ Cardinality(SelfLoops(mdsa_snn)) = Cardinality(ExpectedSelfLoops)
         /\ Cardinality(DegreeReceiverLoops(mdsa_snn)) = DegreeSum(0) * (m_val + 1)
         /\ (Triangle /\ m_val = 2) => Cardinality(DegreeReceiverLoops(mdsa_snn)) = 18
         /\ ret = Return(mdsa_snn, 0)

\* C11 happens: the call has returned for a triangle with m_val = 2 and an
\* SNN that held forward synapses, with 18 degree_receiver self-loops.
C11_Witness ==
  /\ scenario = "synapses" /\ pc = "done"
  /\ Triangle /\ m_val = 2
  /\ call.mdsa_snn # {}
  /\ Cardinality(DegreeReceiverLoops(mdsa_snn)) = 18
  /\ Cardinality(SelfLoops(mdsa_snn)) = 3 + 18 + 9 + 2 + 2
====
